---- MODULE Spec2Model ----
(***************************************************************************)
(* Todo-AI-Backend: the four CRUD handlers over the "todos" table          *)
(* (index.js) and the /ai intent resolver (gemini.js).                     *)
(*                                                                         *)
(* The table is the only shared state.  Every call of the query client is  *)
(* one atomic step on it; a handler that awaits two calls (a list fetch,   *)
(* then update/delete by id) takes two steps, and other requests may run   *)
(* in between.  An optional JavaScript value (undefined, or a value of the *)
(* wrong type for the typeof test) is None, a present one is Some(v).  A   *)
(* text is a sequence of one-character strings.                            *)
(***************************************************************************)
EXTENDS Integers, Sequences, FiniteSets, TLC

VARIABLES db, req, hist

vars == <<db, req, hist>>

(* ------------------------------ bounds -------------------------------- *)

\* The identity column hands out ids 1..MaxId; inserts stop after that.
MaxId == 2

\* Requests in flight at once under Spec; one at a time under SpecSeq, SpecHist.
Reqs == {"r1", "r2"}
SeqReqs == {"r1"}

(* --------------------------- optional values -------------------------- *)

None == <<>>
Some(v) == <<v>>
IsSome(o) == o # <<>>
Val(o) == Head(o)

(* -------------------------------- texts ------------------------------- *)

Lower(c) ==
    CASE c = "A" -> "a"
      [] c = "B" -> "b"
      [] OTHER -> c

\* A faulty variant: the comparison keeps letter case.
toLowerCase_Identity(s) == s

toLowerCase(s) == [i \in 1..Len(s) |-> Lower(s[i])]

includes(s, f) ==
    \E i \in 0..(Len(s) - Len(f)) : SubSeq(s, i + 1, i + Len(f)) = f

\* Task texts a request may carry: the empty string and three others.
Texts == { <<>>, <<"A", "b">>, <<"a">>, <<"B">> }
TaskInputs == {None} \cup {Some(t) : t \in Texts}
NewTexts == { <<"c">> }

\* !x for an optional text: undefined or the empty string.
Falsy(o) == o = None \/ o = Some(<<>>)

(* ------------------------------ the table ----------------------------- *)

\* rows: the records in the order a select returns them; nextId: the
\* identity column's next value.
EmptyDb == [rows |-> <<>>, nextId |-> 1]

Ids(rows) == {rows[i].id : i \in 1..Len(rows)}

RECURSIVE Filter(_, _)
Filter(rows, id) ==
    IF rows = <<>> THEN <<>>
    ELSE IF Head(rows).id = id THEN Filter(Tail(rows), id)
    ELSE <<Head(rows)>> \o Filter(Tail(rows), id)

RECURSIVE Matching(_, _)
Matching(rows, id) ==
    IF rows = <<>> THEN <<>>
    ELSE IF Head(rows).id = id THEN <<Head(rows)>> \o Matching(Tail(rows), id)
    ELSE Matching(Tail(rows), id)

\* A call of the query client answers {data, error}; a failed call changes
\* nothing.
Failed(d) == [db |-> d, data |-> <<>>, error |-> TRUE]

\* supabase.from('todos').insert([{task}]).select()
Insert(d, task, ok) ==
    IF ~ok THEN Failed(d)
    ELSE LET rec == [id |-> d.nextId, task |-> task, done |-> FALSE]
         IN [db |-> [rows |-> Append(d.rows, rec), nextId |-> d.nextId + 1],
             data |-> <<rec>>, error |-> FALSE]

\* A faulty variant: the select is limited to one row.
SelectAll_Limit1(d, ok) ==
    IF ~ok THEN Failed(d)
    ELSE [db |-> d,
          data |-> IF d.rows = <<>> THEN <<>> ELSE <<Head(d.rows)>>,
          error |-> FALSE]

\* supabase.from('todos').select('*')
SelectAll(d, ok) ==
    IF ~ok THEN Failed(d)
    ELSE [db |-> d, data |-> d.rows, error |-> FALSE]

\* A faulty variant: the update lacks its eq('id', id) filter.
SetDone_AllRows(rows, id, done) ==
    [i \in 1..Len(rows) |-> [rows[i] EXCEPT !.done = done]]

SetDone(rows, id, done) ==
    [i \in 1..Len(rows) |->
        IF rows[i].id = id THEN [rows[i] EXCEPT !.done = done] ELSE rows[i]]

\* supabase.from('todos').update({done}).eq('id', id).select(); an undefined
\* done leaves the patch empty, which changes and returns no row.
Update(d, id, done, ok) ==
    IF ~ok THEN Failed(d)
    ELSE IF ~IsSome(done) THEN [db |-> d, data |-> <<>>, error |-> FALSE]
    ELSE LET rows == SetDone(d.rows, id, Val(done))
         IN [db |-> [d EXCEPT !.rows = rows],
             data |-> Matching(rows, id), error |-> FALSE]

\* supabase.from('todos').delete().eq('id', id).select()
Delete(d, id, ok) ==
    IF ~ok THEN Failed(d)
    ELSE [db |-> [d EXCEPT !.rows = Filter(d.rows, id)],
          data |-> Matching(d.rows, id), error |-> FALSE]

(* ------------------------------ requests ------------------------------ *)

\* What the text-generation call can yield: fetch throws, data.error, no
\* candidate text, text that JSON.parse rejects, or a parsed object.
GeminiOutcomes == {"throw", "error", "empty", "badjson", "ok"}

\* A promise rejection nothing catches: the framework either never answers
\* (the request hangs) or answers by its own default error handler, which
\* sends status 500 with a body that is not JSON.
RejectionOutcomes == {"unanswered", "default500"}

NoIntent ==
    [intent |-> "none", id |-> None, position |-> None, task |-> None,
     newTask |-> None, done |-> None]

NoResp == [status |-> 0, json |-> FALSE, body |-> <<>>]

\* pc: idle, resolved (the target id is found, update/delete not yet called),
\* done (res.json was sent), rejected (the handler's promise rejected).
\* id is req.params.id; task and done are req.body.task and req.body.done;
\* calls lists the query-client calls the request has made, each with whether
\* it returned without an error.
Idle ==
    [pc |-> "idle", route |-> "none", parsed |-> NoIntent, id |-> None,
     task |-> None, done |-> None, calls |-> <<>>, resp |-> NoResp]

Err(msg) == [error |-> msg]

\* res.status(status).json(body)
Respond(q, status, body) ==
    [q EXCEPT !.pc = "done",
              !.resp = [status |-> status, json |-> TRUE, body |-> body]]

Called(q, op, ok) == [q EXCEPT !.calls = Append(@, [op |-> op, ok |-> ok])]

Rejected(q, out) ==
    IF out = "default500"
    THEN [q EXCEPT !.pc = "rejected",
                   !.resp = [status |-> 500, json |-> FALSE,
                             body |-> "Internal Server Error"]]
    ELSE [q EXCEPT !.pc = "rejected"]

(* ---------------------------- CRUD handlers --------------------------- *)

\* A faulty variant: only a missing task is refused, an empty one is inserted.
CreateTodo_EmptyAllowed(q, d, ok) ==
    IF q.task = None
    THEN [q |-> Respond(q, 400, Err("Title and description are required")),
          db |-> d]
    ELSE LET r == Insert(d, Val(q.task), ok)
             c == Called(q, "insert", ok)
         IN IF r.error
            THEN [q |-> Respond(c, 500, Err("store error")), db |-> r.db]
            ELSE [q |-> Respond(c, 201, r.data[1]), db |-> r.db]

CreateTodo(q, d, ok) ==
    IF Falsy(q.task)
    THEN [q |-> Respond(q, 400, Err("Title and description are required")),
          db |-> d]
    ELSE LET r == Insert(d, Val(q.task), ok)
             c == Called(q, "insert", ok)
         IN IF r.error
            THEN [q |-> Respond(c, 500, Err("store error")), db |-> r.db]
            ELSE [q |-> Respond(c, 201, r.data[1]), db |-> r.db]

\* GetTodos(req, res): the route, and the read intent.
GetTodos(q, d, ok) ==
    LET r == SelectAll(d, ok)
        c == Called(q, "select", ok)
    IN IF r.error
       THEN [q |-> Respond(c, 500, Err("store error")), db |-> r.db]
       ELSE [q |-> Respond(c, 200, r.data), db |-> r.db]

UpdateTodo(q, d, ok) ==
    LET r == Update(d, Val(q.id), q.done, ok)
        c == Called(q, "update", ok)
    IN IF r.error
       THEN [q |-> Respond(c, 500, Err("store error")), db |-> r.db]
       ELSE [q |-> Respond(c, 200, r.data), db |-> r.db]

\* A faulty variant: an empty result of the delete is answered as not found.
DeleteTodo_NotFound(q, d, ok) ==
    LET r == Delete(d, Val(q.id), ok)
        c == Called(q, "delete", ok)
    IN IF r.error
       THEN [q |-> Respond(c, 500, Err("store error")), db |-> r.db]
       ELSE IF r.data = <<>>
       THEN [q |-> Respond(c, 404, Err("not found")), db |-> r.db]
       ELSE [q |-> Respond(c, 200, r.data), db |-> r.db]

DeleteTodo(q, d, ok) ==
    LET r == Delete(d, Val(q.id), ok)
        c == Called(q, "delete", ok)
    IN IF r.error
       THEN [q |-> Respond(c, 500, Err("store error")), db |-> r.db]
       ELSE [q |-> Respond(c, 200, r.data), db |-> r.db]

(* --------------------------- intent resolver -------------------------- *)

\* A faulty variant: a negative position counts from one past the end.
findTodoIdByPosition_OffByOne(todos, position) ==
    IF Len(todos) = 0 THEN None
    ELSE LET index == IF position > 0 THEN position - 1
                      ELSE Len(todos) + position + 1
         IN IF index < 0 \/ index >= Len(todos) THEN None
            ELSE Some(todos[index + 1].id)

\* The part of findTodoIdByPosition after its list fetch: null is None.
findTodoIdByPosition(todos, position) ==
    IF Len(todos) = 0 THEN None
    ELSE LET index == IF position > 0 THEN position - 1
                      ELSE Len(todos) + position
         IN IF index < 0 \/ index >= Len(todos) THEN None
            ELSE Some(todos[index + 1].id)

RECURSIVE find(_, _)
find(todos, lowerTaskText) ==
    IF todos = <<>> THEN None
    ELSE IF includes(toLowerCase(Head(todos).task), lowerTaskText)
         THEN Some(Head(todos))
         ELSE find(Tail(todos), lowerTaskText)

\* The part of findTodoIdByPartialTaskName after its list fetch.
findTodoIdByPartialTaskName(todos, taskText) ==
    IF Len(todos) = 0 THEN None
    ELSE LET todo == find(todos, toLowerCase(taskText))
         IN IF IsSome(todo) THEN Some(Val(todo).id) ELSE None

\* !id for what a find helper returned: null, or the number 0.
NoId(o) == o = None \/ o = Some(0)

\* req.body.done and req.body.task as an update intent sets them: done when
\* it is a boolean, task when newTask is truthy.
SetBody(q) ==
    [q EXCEPT !.done = IF IsSome(q.parsed.done) THEN q.parsed.done ELSE @,
              !.task = IF ~Falsy(q.parsed.newTask) THEN q.parsed.newTask ELSE @]

\* handleUpdateIntent up to its first await.  With an id it calls UpdateTodo
\* at once.  Otherwise a find helper awaits GetTodos(), which without res
\* throws on a store error, and nothing catches that; a found id leaves the
\* request at "resolved", with UpdateTodo still to be called.
handleUpdateIntent(q, d, ok, out) ==
    LET p == q.parsed
        r == SelectAll(d, ok)
        c == Called(q, "select", ok)
    IN IF IsSome(p.id) THEN UpdateTodo(SetBody([q EXCEPT !.id = p.id]), d, ok)
       ELSE IF IsSome(p.position)
       THEN IF r.error THEN [q |-> Rejected(c, out), db |-> d]
            ELSE LET id == findTodoIdByPosition(r.data, Val(p.position))
                 IN IF NoId(id)
                    THEN [q |-> Respond(c, 404, Err("No task found at position")),
                          db |-> d]
                    ELSE [q |-> [SetBody([c EXCEPT !.id = id])
                                   EXCEPT !.pc = "resolved"],
                          db |-> d]
       ELSE IF IsSome(p.task)
       THEN IF r.error THEN [q |-> Rejected(c, out), db |-> d]
            ELSE LET id == findTodoIdByPartialTaskName(r.data, Val(p.task))
                 IN IF NoId(id)
                    THEN [q |-> Respond(c, 404, Err("No task found matching")),
                          db |-> d]
                    ELSE [q |-> [SetBody([c EXCEPT !.id = id])
                                   EXCEPT !.pc = "resolved"],
                          db |-> d]
       ELSE [q |-> Respond(q, 400,
                     Err("Need either id, position, or task text for update")),
             db |-> d]

\* A faulty variant: position is consulted before id.
handleDeleteIntent_PositionFirst(q, d, ok, out) ==
    LET p == q.parsed
        r == SelectAll(d, ok)
        c == Called(q, "select", ok)
    IN IF IsSome(p.position)
       THEN IF r.error THEN [q |-> Rejected(c, out), db |-> d]
            ELSE LET id == findTodoIdByPosition(r.data, Val(p.position))
                 IN IF NoId(id)
                    THEN [q |-> Respond(c, 404, Err("No task found at position")),
                          db |-> d]
                    ELSE [q |-> [c EXCEPT !.id = id, !.pc = "resolved"],
                          db |-> d]
       ELSE IF IsSome(p.id) THEN DeleteTodo([q EXCEPT !.id = p.id], d, ok)
       ELSE [q |-> Respond(q, 400,
                     Err("Need either id, position, or task text for delete")),
             db |-> d]

\* handleDeleteIntent up to its first await, likewise.
handleDeleteIntent(q, d, ok, out) ==
    LET p == q.parsed
        r == SelectAll(d, ok)
        c == Called(q, "select", ok)
    IN IF IsSome(p.id) THEN DeleteTodo([q EXCEPT !.id = p.id], d, ok)
       ELSE IF IsSome(p.position)
       THEN IF r.error THEN [q |-> Rejected(c, out), db |-> d]
            ELSE LET id == findTodoIdByPosition(r.data, Val(p.position))
                 IN IF NoId(id)
                    THEN [q |-> Respond(c, 404, Err("No task found at position")),
                          db |-> d]
                    ELSE [q |-> [c EXCEPT !.id = id, !.pc = "resolved"],
                          db |-> d]
       ELSE IF IsSome(p.task)
       THEN IF r.error THEN [q |-> Rejected(c, out), db |-> d]
            ELSE LET id == findTodoIdByPartialTaskName(r.data, Val(p.task))
                 IN IF NoId(id)
                    THEN [q |-> Respond(c, 404, Err("No task found matching")),
                          db |-> d]
                    ELSE [q |-> [c EXCEPT !.id = id, !.pc = "resolved"],
                          db |-> d]
       ELSE [q |-> Respond(q, 400,
                     Err("Need either id, position, or task text for delete")),
             db |-> d]

\* A faulty variant: the reference is resolved again when the update or delete is made.
resume_Refetch(q, d, ok) ==
    LET p == q.parsed
        id == IF IsSome(p.position)
              THEN findTodoIdByPosition(d.rows, Val(p.position))
              ELSE findTodoIdByPartialTaskName(d.rows, Val(p.task))
        q2 == IF NoId(id) THEN q ELSE [q EXCEPT !.id = id]
    IN IF p.intent = "update" THEN UpdateTodo(q2, d, ok)
       ELSE DeleteTodo(q2, d, ok)

\* The rest of either handler once the find helper's await has returned an
\* id: return UpdateTodo(req, res), or return DeleteTodo(req, res).
resume(q, d, ok) ==
    IF q.parsed.intent = "update" THEN UpdateTodo(q, d, ok)
    ELSE DeleteTodo(q, d, ok)

handleAiPrompt(q, d, prompt, g, p, ok, out) ==
    IF ~prompt THEN [q |-> Respond(q, 400, Err("Prompt is required")), db |-> d]
    ELSE IF g = "throw"
    THEN [q |-> Respond(q, 500, Err("Failed to process AI request")), db |-> d]
    ELSE IF g = "error"
    THEN [q |-> Respond(q, 500, Err("data.error.message")), db |-> d]
    ELSE IF g = "empty"
    THEN [q |-> Respond(q, 500, Err("No response from Gemini")), db |-> d]
    ELSE IF g = "badjson"
    THEN [q |-> Respond(q, 500, Err("Failed to parse Gemini response as JSON")),
          db |-> d]
    ELSE LET q1 == [q EXCEPT !.parsed = p]
         IN CASE p.intent = "create" ->
                   IF Falsy(p.task)
                   THEN [q |-> Respond(q1, 400,
                                 Err("Task description required for create")),
                         db |-> d]
                   ELSE CreateTodo([q1 EXCEPT !.task = p.task], d, ok)
              [] p.intent = "read" -> GetTodos(q1, d, ok)
              [] p.intent = "update" -> handleUpdateIntent(q1, d, ok, out)
              [] p.intent = "delete" -> handleDeleteIntent(q1, d, ok, out)
              [] OTHER ->
                   [q |-> Respond(q1, 400, Err("Unknown intent from AI")),
                    db |-> d]

(* ------------------------------- inputs ------------------------------- *)

IdInputs == {None} \cup {Some(i) : i \in 1..MaxId}
PosInputs == {None} \cup {Some(i) : i \in (0 - MaxId - 1)..(MaxId + 1)}
DoneInputs == {None, Some(TRUE), Some(FALSE)}
NewTaskInputs == {None} \cup {Some(t) : t \in NewTexts}

\* Every object the model's JSON can parse to, over the input sets.
Intents ==
    [intent : {"create"}, id : {None, Some(1)}, position : {None},
     task : TaskInputs, newTask : {None}, done : {None}]
    \cup {[NoIntent EXCEPT !.intent = "read"], [NoIntent EXCEPT !.intent = "other"]}
    \cup [intent : {"update"}, id : IdInputs, position : PosInputs,
          task : TaskInputs, newTask : NewTaskInputs, done : DoneInputs]
    \cup [intent : {"delete"}, id : IdInputs, position : PosInputs,
          task : TaskInputs, newTask : {None}, done : {None}]

\* The intents of the prompt's own examples and their like: one reference
\* each, by position or by text.
FewIntents ==
    {p \in Intents :
        /\ p.intent \in {"update", "delete"}
        /\ p.id = None
        /\ p.newTask = None
        /\ \/ p.position \in {Some(1), Some(0 - 1)} /\ p.task = None
           \/ p.position = None /\ p.task = Some(<<"a">>)
        /\ p.intent = "update" => p.done = Some(TRUE)}

\* The read intent, and the create intents.
ReadCreate == {p \in Intents : p.intent \in {"read", "create"}}

\* Two task texts to create: "a" occurs in one and not in the other.
FewTasks == {Some(<<"A", "b">>), Some(<<"B">>)}

(* ------------------------------- actions ------------------------------ *)

Init ==
    /\ db = EmptyDb
    /\ req = [r \in Reqs |-> Idle]
    /\ hist = {}

\* The identity column stays within 1..MaxId.
Bounded(d) == d.nextId <= MaxId + 1

\* The step's effect.  The finished exchange stays in the slot until Recycle,
\* or, when nothing goes on to read it (keep = FALSE), the slot is free at once.
Finish(r, res, keep) ==
    /\ Bounded(res.db)
    /\ db' = res.db
    /\ req' = [req EXCEPT ![r] = IF keep THEN res.q ELSE Idle]

\* POST /todos
PostTodos(r, T, keep) ==
    /\ req[r].pc = "idle"
    /\ \E task \in T, ok \in BOOLEAN :
          Finish(r, CreateTodo([Idle EXCEPT !.route = "create", !.task = task],
                               db, ok), keep)

\* GET /todos
GetTodosRoute(r, keep) ==
    /\ req[r].pc = "idle"
    /\ \E ok \in BOOLEAN :
          Finish(r, GetTodos([Idle EXCEPT !.route = "list"], db, ok), keep)

\* PUT /todos/:id
PutTodos(r, keep) ==
    /\ req[r].pc = "idle"
    /\ \E id \in 1..MaxId, done \in DoneInputs, ok \in BOOLEAN :
          Finish(r, UpdateTodo([Idle EXCEPT !.route = "update", !.id = Some(id),
                                            !.done = done], db, ok), keep)

\* DELETE /todos/:id
DeleteTodos(r, keep) ==
    /\ req[r].pc = "idle"
    /\ \E id \in 1..MaxId, ok \in BOOLEAN :
          Finish(r, DeleteTodo([Idle EXCEPT !.route = "delete", !.id = Some(id)],
                               db, ok), keep)

\* POST /ai, to the handler's first await of the store
PostAi(r, I) ==
    /\ req[r].pc = "idle"
    /\ \/ \E prompt \in BOOLEAN, g \in GeminiOutcomes \ {"ok"} :
             Finish(r, handleAiPrompt([Idle EXCEPT !.route = "ai"], db, prompt,
                                      g, NoIntent, TRUE, "unanswered"), TRUE)
       \/ \E p \in I, ok \in BOOLEAN, out \in RejectionOutcomes :
             Finish(r, handleAiPrompt([Idle EXCEPT !.route = "ai"], db, TRUE,
                                      "ok", p, ok, out), TRUE)

\* POST /ai, from the find helper's return to the response
AiResume(r) ==
    /\ req[r].pc = "resolved"
    /\ \E ok \in BOOLEAN : Finish(r, resume(req[r], db, ok), TRUE)

\* The exchange is over; the slot takes the next request.
Recycle(r) ==
    /\ req[r].pc \in {"done", "rejected"}
    /\ req' = [req EXCEPT ![r] = Idle]
    /\ db' = db

(* ------------------------- a client's record ------------------------- *)

\* hist is what a client of the API has seen of the records it created: for
\* each record a 201 response returned and no 200 response of a delete has
\* returned since, the record as created, and whether an update was called
\* on its id since.  It is written only from responses and calls; no handler
\* reads it.
NoCall == [op |-> "none", ok |-> FALSE]

LastCall(q) == IF q.calls = <<>> THEN NoCall ELSE q.calls[Len(q.calls)]

Answered(r, call, status) ==
    /\ req[r].pc \in {"idle", "resolved"}
    /\ req'[r].pc = "done"
    /\ LastCall(req'[r]).op = call
    /\ Len(req'[r].calls) = Len(req[r].calls) + 1
    /\ req'[r].resp.status = status

Observe ==
    LET created == {req'[r].resp.body : r \in {x \in Reqs : Answered(x, "insert", 201)}}
        deleted == UNION {Ids(req'[r].resp.body) :
                             r \in {x \in Reqs : Answered(x, "delete", 200)}}
        updated == {Val(req'[r].id) :
                       r \in {x \in Reqs : LastCall(req'[x]).op = "update"
                                  /\ Len(req'[x].calls) = Len(req[x].calls) + 1}}
    IN {[h EXCEPT !.touched = @ \/ h.rec.id \in updated] :
            h \in {x \in hist : x.rec.id \notin deleted}}
       \cup {[rec |-> c, touched |-> FALSE] : c \in created}

\* Concurrent requests: /ai with a few intents, whose exchanges are kept, and
\* the routes that change the table, whose responses nothing here reads.
Next ==
    \E r \in Reqs :
       \/ PostTodos(r, FewTasks, FALSE) /\ hist' = hist
       \/ PutTodos(r, FALSE) /\ hist' = hist
       \/ DeleteTodos(r, FALSE) /\ hist' = hist
       \/ PostAi(r, FewIntents) /\ hist' = hist
       \/ AiResume(r) /\ hist' = hist
       \/ Recycle(r) /\ hist' = hist

Spec == Init /\ [][Next]_vars

\* One request at a time, every route and every intent.
NextSeq ==
    \E r \in SeqReqs :
       \/ PostTodos(r, TaskInputs, TRUE) /\ hist' = hist
       \/ GetTodosRoute(r, TRUE) /\ hist' = hist
       \/ PutTodos(r, TRUE) /\ hist' = hist
       \/ DeleteTodos(r, TRUE) /\ hist' = hist
       \/ PostAi(r, Intents) /\ hist' = hist
       \/ AiResume(r) /\ hist' = hist
       \/ Recycle(r) /\ hist' = hist

SpecSeq == Init /\ [][NextSeq]_vars

\* One request at a time, with the client's record kept.
NextHist ==
    \E r \in SeqReqs :
       \/ PostTodos(r, TaskInputs, TRUE) /\ hist' = Observe
       \/ GetTodosRoute(r, TRUE) /\ hist' = Observe
       \/ PutTodos(r, TRUE) /\ hist' = Observe
       \/ DeleteTodos(r, TRUE) /\ hist' = Observe
       \/ PostAi(r, FewIntents \cup ReadCreate) /\ hist' = Observe
       \/ AiResume(r) /\ hist' = Observe
       \/ Recycle(r) /\ hist' = Observe

SpecHist == Init /\ [][NextHist]_vars

(* ------------------------------- claims ------------------------------- *)

\* What the claims say of a reference, stated without the resolver's helpers.

\* The zero-based index the claim gives position p in a list of n records.
ClaimIndex(n, p) == IF p > 0 THEN p - 1 ELSE n + p

SameLetter(a, b) == a = b \/ {a, b} \in {{"a", "A"}, {"b", "B"}}

\* Text t contains fragment f, letter case ignored.
ContainsCI(t, f) ==
    \E i \in 0..(Len(t) - Len(f)) : \A k \in 1..Len(f) : SameLetter(t[i + k], f[k])

MatchesOf(rows, f) == {i \in 1..Len(rows) : ContainsCI(rows[i].task, f)}

Least(S) == CHOOSE i \in S : \A j \in S : i <= j

\* Request r takes its first step, and it is an update or delete intent.
Dispatched(r) ==
    /\ req[r].pc = "idle"
    /\ req'[r].pc # "idle"
    /\ req'[r].parsed.intent \in {"update", "delete"}

ByPosition(p) == ~IsSome(p.id) /\ IsSome(p.position)

ByText(p) == ~IsSome(p.id) /\ ~IsSome(p.position) /\ IsSome(p.task)

Ops(q) == {q.calls[i].op : i \in 1..Len(q.calls)}

\* C1: an update or delete intent resolves its target by id, then position,
\* then task text.  A numeric id is used as it is, with no list fetch, also
\* when position and task are present; position is used only without a
\* numeric id, task text only without either; with none of the three the
\* answer is status 400 and neither update nor delete is called.
C1_ResolutionPriority ==
    [][\A r \in Reqs :
         Dispatched(r) =>
           LET q == req'[r]
               p == q.parsed
           IN /\ IsSome(p.id) =>
                   /\ q.id = p.id
                   /\ Len(q.calls) = 1
                   /\ q.calls[1].op = p.intent
              /\ ByPosition(p) =>
                   /\ Ops(q) = {"select"}
                   /\ q.pc = "resolved" =>
                        LET index == ClaimIndex(Len(db.rows), Val(p.position))
                        IN /\ 0 <= index /\ index < Len(db.rows)
                           /\ q.id = Some(db.rows[index + 1].id)
              /\ ByText(p) =>
                   /\ Ops(q) = {"select"}
                   /\ q.pc = "resolved" =>
                        LET m == MatchesOf(db.rows, Val(p.task))
                        IN /\ m # {}
                           /\ q.id = Some(db.rows[Least(m)].id)
              /\ (~IsSome(p.id) /\ ~IsSome(p.position) /\ ~IsSome(p.task)) =>
                   /\ q.pc = "done"
                   /\ q.resp.status = 400
                   /\ q.calls = <<>>
                   /\ db' = db
    ]_vars

\* An intent with id, position and task all present has been answered after
\* one call on a table where id and position name different records.
C1_Witness ==
    \E r \in Reqs :
       /\ req[r].pc = "done"
       /\ req[r].parsed.intent = "delete"
       /\ req[r].parsed.id = Some(1)
       /\ req[r].parsed.position = Some(2)
       /\ req[r].parsed.task = Some(<<"B">>)
       /\ req[r].resp.status = 200
       /\ Len(req[r].resp.body) = 1
       /\ req[r].resp.body[1].id = 1
       /\ Len(db.rows) = 1
       /\ db.rows[1].id = 2

\* C2: on a fetched list of n records, position p picks the record at
\* zero-based index p - 1 when p > 0 and n + p when p <= 0; when that index is
\* outside [0, n) the answer is status 404 and neither update nor delete is
\* called.
C2_PositionResolution ==
    [][\A r \in Reqs :
         (/\ Dispatched(r)
          /\ ByPosition(req'[r].parsed)
          /\ req'[r].calls = <<[op |-> "select", ok |-> TRUE]>>) =>
           LET q == req'[r]
               n == Len(db.rows)
               index == ClaimIndex(n, Val(q.parsed.position))
           IN IF 0 <= index /\ index < n
              THEN /\ q.pc = "resolved"
                   /\ q.id = Some(db.rows[index + 1].id)
              ELSE /\ q.pc = "done"
                   /\ q.resp.status = 404
                   /\ db' = db
    ]_vars

\* Position -1 has resolved to the last of two records.
C2_Witness ==
    \E r \in Reqs :
       /\ req[r].pc = "resolved"
       /\ req[r].parsed.position = Some(0 - 1)
       /\ req[r].parsed.id = None
       /\ Len(db.rows) = 2
       /\ req[r].id = Some(db.rows[2].id)

\* C3: text resolution picks the id of the first record, in the order the
\* store returned, whose task contains the fragment with letter case ignored;
\* no record without the fragment is picked, and when none matches the answer
\* is status 404 and neither update nor delete is called.
C3_TextResolution ==
    [][\A r \in Reqs :
         (/\ Dispatched(r)
          /\ ByText(req'[r].parsed)
          /\ req'[r].calls = <<[op |-> "select", ok |-> TRUE]>>) =>
           LET q == req'[r]
               m == MatchesOf(db.rows, Val(q.parsed.task))
           IN IF m # {}
              THEN /\ q.pc = "resolved"
                   /\ q.id = Some(db.rows[Least(m)].id)
              ELSE /\ q.pc = "done"
                   /\ q.resp.status = 404
                   /\ db' = db
    ]_vars

\* Fragment "a" has resolved past a first record "B" to a second record "Ab".
C3_Witness ==
    \E r \in Reqs :
       /\ req[r].pc = "resolved"
       /\ ByText(req[r].parsed)
       /\ req[r].parsed.task = Some(<<"a">>)
       /\ Len(db.rows) = 2
       /\ db.rows[1].task = <<"B">>
       /\ db.rows[2].task = <<"A", "b">>
       /\ req[r].id = Some(db.rows[2].id)

\* Request r makes one more call of the query client in this step.
Calls(r, op, ok) ==
    /\ Len(req'[r].calls) = Len(req[r].calls) + 1
    /\ LastCall(req'[r]) = [op |-> op, ok |-> ok]

\* C4: an update intent with a newTask that resolves to an existing record
\* leaves that record's task equal to newTask (and its done equal to the done
\* given, if any) once the request is answered.
C4_NewTaskApplied ==
    \A r \in Reqs :
       LET q == req[r]
       IN (/\ q.pc = "done"
           /\ q.parsed.intent = "update"
           /\ ~Falsy(q.parsed.newTask)
           /\ LastCall(q) = [op |-> "update", ok |-> TRUE]
           /\ q.resp.status = 200) =>
             \A i \in 1..Len(db.rows) :
                db.rows[i].id = Val(q.id) =>
                   /\ db.rows[i].task = Val(q.parsed.newTask)
                   /\ IsSome(q.parsed.done) => db.rows[i].done = Val(q.parsed.done)

\* C5: when the list fetch of a resolving update or delete intent fails, the
\* /ai request is answered with status 500 and a JSON error body.
C5_ListFailureAnswered ==
    \A r \in Reqs :
       LET q == req[r]
       IN (/\ q.route = "ai"
           /\ q.parsed.intent \in {"update", "delete"}
           /\ LastCall(q) = [op |-> "select", ok |-> FALSE]) =>
             /\ q.pc = "done"
             /\ q.resp.status = 500
             /\ q.resp.json

\* C6: a delete by id (DELETE /todos/:id, or a delete intent with a numeric
\* id) of an id that no record has, when the store call returns without an
\* error, answers status 200 with an empty result and leaves the table as it
\* was.
C6_DeleteMissingId ==
    [][\A r \in Reqs :
         (/\ req[r].pc = "idle"
          /\ Calls(r, "delete", TRUE)
          /\ Val(req'[r].id) \notin Ids(db.rows)) =>
            /\ req'[r].pc = "done"
            /\ req'[r].resp.status = 200
            /\ req'[r].resp.json
            /\ req'[r].resp.body = <<>>
            /\ db' = db
    ]_vars

\* A delete intent with id 2 has been answered on a table holding only id 1.
C6_Witness ==
    \E r \in Reqs :
       /\ req[r].pc = "done"
       /\ req[r].route = "ai"
       /\ req[r].parsed.intent = "delete"
       /\ req[r].parsed.id = Some(2)
       /\ req[r].resp.status = 200
       /\ req[r].resp.body = <<>>
       /\ Ids(db.rows) = {1}

\* C7: a create with an empty or missing task, by POST /todos or by a create
\* intent, whatever else it carries, answers status 400, issues no insert and
\* leaves the table as it was.
C7_EmptyTaskRejected ==
    [][\A r \in Reqs :
         (/\ req[r].pc = "idle"
          /\ \/ req'[r].route = "create" /\ Falsy(req'[r].task)
             \/ /\ req'[r].route = "ai"
                /\ req'[r].parsed.intent = "create"
                /\ Falsy(req'[r].parsed.task)) =>
            /\ req'[r].pc = "done"
            /\ req'[r].resp.status = 400
            /\ req'[r].resp.json
            /\ req'[r].calls = <<>>
            /\ db' = db
    ]_vars

\* A create intent with an empty task and an id has been answered on a table
\* that holds a record.
C7_Witness ==
    \E r \in Reqs :
       /\ req[r].pc = "done"
       /\ req[r].route = "ai"
       /\ req[r].parsed.intent = "create"
       /\ req[r].parsed.task = Some(<<>>)
       /\ req[r].parsed.id = Some(1)
       /\ req[r].resp.status = 400
       /\ Len(db.rows) = 1

\* C8: an update of id X with done = d that the store carries out changes
\* record X's done to d and nothing else: every other record keeps its id,
\* task and done, and no record is added or removed.
C8_UpdateFrame ==
    [][\A r \in Reqs :
         (/\ Calls(r, "update", TRUE)
          /\ IsSome(req'[r].done)) =>
            /\ db'.nextId = db.nextId
            /\ Len(db'.rows) = Len(db.rows)
            /\ \A i \in 1..Len(db.rows) :
                  db'.rows[i] =
                     IF db.rows[i].id = Val(req'[r].id)
                     THEN [id |-> db.rows[i].id, task |-> db.rows[i].task,
                           done |-> Val(req'[r].done)]
                     ELSE db.rows[i]
    ]_vars

\* The update intent id = 2, done = true has been answered on records 1 and 2:
\* record 2 is done, record 1 is not.
C8_Witness ==
    \E r \in Reqs :
       /\ req[r].pc = "done"
       /\ req[r].parsed.intent = "update"
       /\ req[r].parsed.id = Some(2)
       /\ req[r].parsed.done = Some(TRUE)
       /\ req[r].resp.status = 200
       /\ Len(db.rows) = 2
       /\ db.rows[1] = [id |-> 1, task |-> <<"A", "b">>, done |-> FALSE]
       /\ db.rows[2] = [id |-> 2, task |-> <<"B">>, done |-> TRUE]

\* A list has been answered in this step by request r.
Listed(r) ==
    /\ Answered(r, "select", 200)
    /\ req'[r].route = "list" \/ req'[r].parsed.intent = "read"

\* C9 (as claimed): a created record, returned by a 201 response with an id no
\* record had, is in every later list with that id, that task and done =
\* false, unless a delete removed it in between.
C9_RoundTripOriginal ==
    [][\A r \in Reqs :
         /\ Answered(r, "insert", 201) =>
              /\ req'[r].resp.body.id \notin Ids(db.rows)
              /\ req'[r].resp.body.task = Val(req'[r].task)
              /\ req'[r].resp.body.done = FALSE
         /\ Listed(r) =>
              \A h \in hist :
                 \E i \in 1..Len(req'[r].resp.body) :
                    req'[r].resp.body[i] =
                       [id |-> h.rec.id, task |-> h.rec.task, done |-> FALSE]
    ]_vars

\* C9 (amended): the same, unless a delete removed the record or an update was
\* called on its id in between.
C9_RoundTrip ==
    [][\A r \in Reqs :
         /\ Answered(r, "insert", 201) =>
              /\ req'[r].resp.body.id \notin Ids(db.rows)
              /\ req'[r].resp.body.task = Val(req'[r].task)
              /\ req'[r].resp.body.done = FALSE
         /\ Listed(r) =>
              \A h \in {x \in hist : ~x.touched} :
                 \E i \in 1..Len(req'[r].resp.body) :
                    req'[r].resp.body[i] =
                       [id |-> h.rec.id, task |-> h.rec.task, done |-> FALSE]
    ]_vars

\* A list has been answered that holds a record created and not touched since,
\* next to one that an update has set done.
C9_Witness ==
    \E r \in Reqs :
       /\ req[r].pc = "done"
       /\ req[r].route = "list"
       /\ req[r].resp.status = 200
       /\ Len(req[r].resp.body) = 2
       /\ \E h \in hist :
             /\ ~h.touched
             /\ h.rec.id = 2
             /\ req[r].resp.body[2] = [id |-> 2, task |-> h.rec.task, done |-> FALSE]
       /\ req[r].resp.body[1].done

\* The record of rows that a reference picks now: its id, or None.
Satisfier(rows, p) ==
    IF IsSome(p.position)
    THEN LET index == ClaimIndex(Len(rows), Val(p.position))
         IN IF 0 <= index /\ index < Len(rows) THEN Some(rows[index + 1].id)
            ELSE None
    ELSE LET m == MatchesOf(rows, Val(p.task))
         IN IF m # {} THEN Some(rows[Least(m)].id) ELSE None

\* Request r, its target found earlier, has its update or delete carried out
\* in this step.
Applied(r) ==
    /\ req[r].pc = "resolved"
    /\ \/ Calls(r, "update", TRUE)
       \/ Calls(r, "delete", TRUE)

\* C10 (as claimed): a position-based or text-based update/delete mutates the
\* record that satisfies the reference in the table at the moment the
\* mutation is applied, whatever other requests did since the list fetch.
C10_TargetAtMutation ==
    [][\A r \in Reqs :
         Applied(r) => req[r].id = Satisfier(db.rows, req[r].parsed)
    ]_vars

\* C10 (amended): it mutates the record whose id satisfied the reference in
\* the list the request fetched: that id is kept until the update or delete
\* is applied, and the update or delete is applied to that id alone, whether
\* or not the record still satisfies the reference or is still there.
C10_TargetAtFetch ==
    [][\A r \in Reqs :
         /\ (Dispatched(r) /\ req'[r].pc = "resolved") =>
               req'[r].id = Satisfier(db.rows, req'[r].parsed)
         /\ (req[r].pc = "resolved" /\ req'[r].pc = "resolved") =>
               req'[r].id = req[r].id
         /\ Applied(r) =>
               /\ req'[r].id = req[r].id
               /\ Len(db'.rows) = Cardinality(Ids(db.rows) \ {Val(req[r].id)})
                     \/ req[r].parsed.intent = "update"
               /\ \A i \in 1..Len(db.rows) :
                     db.rows[i].id # Val(req[r].id) =>
                        \E j \in 1..Len(db'.rows) : db'.rows[j] = db.rows[i]
               /\ \A j \in 1..Len(db'.rows) :
                     \/ \E i \in 1..Len(db.rows) : db'.rows[j] = db.rows[i]
                     \/ /\ req[r].parsed.intent = "update"
                        /\ db'.rows[j].id = Val(req[r].id)
               /\ Val(req[r].id) \in Ids(db'.rows) <=>
                     /\ req[r].parsed.intent = "update"
                     /\ Val(req[r].id) \in Ids(db.rows)
    ]_vars

\* A delete by position has been carried out on an id that another request
\* had already removed since the list fetch: it returned no record.
C10_Witness ==
    \E r \in Reqs :
       /\ req[r].pc = "done"
       /\ req[r].parsed.intent = "delete"
       /\ ByPosition(req[r].parsed)
       /\ LastCall(req[r]) = [op |-> "delete", ok |-> TRUE]
       /\ req[r].resp.status = 200
       /\ req[r].resp.body = <<>>
       /\ db.rows # <<>>

====
